---- MODULE Spec2Model ----
(***************************************************************************)
(* Model of pkg/storage/s3/s3.go: the S3 storage adapter (New, Pull, Push, *)
(* ReadDir, Remove, getEndpoint, getConfig) together with the object-store *)
(* backend and the local filesystem it talks to.                           *)
(*                                                                         *)
(* Strings the code takes apart (object keys, local paths are not) are     *)
(* sequences of one-character strings; endpoint strings are sequences of   *)
(* lexemes (see EndpointTokens).                                           *)
(***************************************************************************)
EXTENDS Integers, Sequences, FiniteSets, TLC

VARIABLES client, store, files, lastCall, openHandles, epIn, epOut

vars == <<client, store, files, lastCall, openHandles, epIn, epOut>>

(***************************************************************************)
(* Bounds of the model.                                                    *)
(***************************************************************************)
\* longest option list handed to New
MaxOpts == 1
\* longest endpoint string (in lexemes) handed to getEndpoint in SpecEndpoint
MaxEndpointLen == 5
\* the backend's listing page size (1000 on S3): entries beyond it are cut
PageSize == 2

(***************************************************************************)
(* Generic sequence helpers.                                               *)
(***************************************************************************)
SeqsUpTo(S, n) == UNION {[1..k -> S] : k \in 0..n}

IsPrefix(p, s) == Len(p) <= Len(s) /\ SubSeq(s, 1, Len(p)) = p

Last(s) == s[Len(s)]

Front(s) == SubSeq(s, 1, Len(s) - 1)

\* index of the first / last occurrence of c in s, 0 when there is none
IndexOf(s, c) ==
    IF \E i \in 1..Len(s) : s[i] = c
    THEN CHOOSE i \in 1..Len(s) : s[i] = c /\ \A j \in 1..(i - 1) : s[j] # c
    ELSE 0

LastIndexOf(s, c) ==
    IF \E i \in 1..Len(s) : s[i] = c
    THEN CHOOSE i \in 1..Len(s) : s[i] = c /\ \A j \in (i + 1)..Len(s) : s[j] # c
    ELSE 0

(***************************************************************************)
(* path.Join and path.Clean of the Go standard library, as Pull (line 71)  *)
(* and Push (line 127) call them, on strings of characters.                *)
(***************************************************************************)
RECURSIVE SplitSlash(_)
\* strings.Split(s, "/"): the segments between slashes, empty ones included
SplitSlash(s) ==
    LET i == IndexOf(s, "/")
    IN  IF i = 0 THEN <<s>>
        ELSE <<SubSeq(s, 1, i - 1)>> \o SplitSlash(SubSeq(s, i + 1, Len(s)))

RECURSIVE CleanSegs(_, _, _)
\* path.Clean's pass over the segments: drop empty and "." segments, let ".."
\* remove the segment before it, drop ".." at the root of a rooted path and
\* keep it at the front of a relative one
CleanSegs(segs, out, rooted) ==
    IF segs = <<>> THEN out
    ELSE LET s == Head(segs)
             rest == Tail(segs)
         IN  IF s = <<>> \/ s = <<".">> THEN CleanSegs(rest, out, rooted)
             ELSE IF s = <<".", ".">>
             THEN IF out # <<>> /\ Last(out) # <<".", ".">>
                  THEN CleanSegs(rest, Front(out), rooted)
                  ELSE IF rooted THEN CleanSegs(rest, out, rooted)
                  ELSE CleanSegs(rest, Append(out, s), rooted)
             ELSE CleanSegs(rest, Append(out, s), rooted)

RECURSIVE JoinSlash(_)
\* strings.Join(segs, "/")
JoinSlash(segs) ==
    IF segs = <<>> THEN <<>>
    ELSE IF Len(segs) = 1 THEN Head(segs)
    ELSE Head(segs) \o <<"/">> \o JoinSlash(Tail(segs))

PathClean(p) ==
    IF p = <<>> THEN <<".">>
    ELSE LET rooted == p[1] = "/"
             body == JoinSlash(CleanSegs(SplitSlash(p), <<>>, rooted))
         IN  IF rooted THEN <<"/">> \o body
             ELSE IF body = <<>> THEN <<".">> ELSE body

\* path.Join(a, b): empty elements are ignored, the rest joined with "/" and
\* cleaned; the result is "" when both are empty
PathJoin(a, b) ==
    IF a = <<>> /\ b = <<>> THEN <<>>
    ELSE IF a = <<>> THEN PathClean(b)
    ELSE IF b = <<>> THEN PathClean(a)
    ELSE PathClean(a \o <<"/">> \o b)

(***************************************************************************)
(* net/url as getEndpoint (lines 199-207) and the operations (Hostname,    *)
(* lines 71, 106, 155, 185) use it.  A URL string is a sequence of         *)
(* lexemes: names made of letters, a number, a dotted number, ":" and "/". *)
(* Adjacent lexemes concatenate, as the characters of a string do.         *)
(***************************************************************************)
Letters == {"http", "HTTP", "minio", "localhost", "bkt"}

Digits == {"9000"}

DottedDigits == {"127.0.0.1"}

\* the pieces endpoint strings are built from in SpecEndpoint; "://" is the
\* three lexemes ":", "/", "/"
EndpointTokens == {"http", "HTTP", "minio", "127.0.0.1", "9000", ":", "/", "://"}

RECURSIVE Lexemes(_)
Lexemes(tokens) ==
    IF tokens = <<>> THEN <<>>
    ELSE (IF Head(tokens) = "://" THEN <<":", "/", "/">> ELSE <<Head(tokens)>>)
         \o Lexemes(Tail(tokens))

\* strings.ToLower on one lexeme
ToLower(t) == IF t = "HTTP" THEN "http" ELSE t

NoURL ==
    [err |-> TRUE, scheme |-> <<>>, opaque |-> <<>>, host |-> <<>>,
     path |-> <<>>, omitHost |-> FALSE]

RECURSIVE SchemeEnd(_, _)
\* url.getScheme: the index of the ":" ending a scheme, 0 when the string has
\* no scheme, -1 when it starts with ":" (missing protocol scheme)
SchemeEnd(raw, i) ==
    IF i > Len(raw) THEN 0
    ELSE IF raw[i] \in Letters THEN SchemeEnd(raw, i + 1)
    ELSE IF raw[i] \in Digits \cup DottedDigits
         THEN IF i = 1 THEN 0 ELSE SchemeEnd(raw, i + 1)
    ELSE IF raw[i] = ":" THEN IF i = 1 THEN -1 ELSE i
    ELSE 0

\* url.validOptionalPort: "" or ":" followed by digits only
validOptionalPort(port) ==
    \/ port = <<>>
    \/ port[1] = ":" /\ \A i \in 2..Len(port) : port[i] \in Digits

\* url.splitHostPort: host and port of a host[:port] string
splitHostPort(hostPort) ==
    LET colon == LastIndexOf(hostPort, ":")
    IN  IF colon # 0 /\ validOptionalPort(SubSeq(hostPort, colon, Len(hostPort)))
        THEN [host |-> SubSeq(hostPort, 1, colon - 1),
              port |-> SubSeq(hostPort, colon + 1, Len(hostPort))]
        ELSE [host |-> hostPort, port |-> <<>>]

\* (*URL).Hostname and (*URL).Port
Hostname(u) == splitHostPort(u.host).host

Port(u) == splitHostPort(u.host).port

\* url.parseHost: a host whose last ":" is not followed by a valid port is
\* rejected
ValidHost(host) ==
    LET colon == LastIndexOf(host, ":")
    IN  colon = 0 \/ validOptionalPort(SubSeq(host, colon, Len(host)))

StartsWith(s, p) == IsPrefix(p, s)

\* url.Parse
Parse(raw) ==
    LET e == SchemeEnd(raw, 1)
    IN  IF e = -1 THEN NoURL
        ELSE
        LET scheme == IF e = 0 THEN <<>>
                      ELSE [i \in 1..(e - 1) |-> ToLower(raw[i])]
            rest == IF e = 0 THEN raw ELSE SubSeq(raw, e + 1, Len(raw))
            base == [NoURL EXCEPT !.err = FALSE, !.scheme = scheme]
        IN  IF ~StartsWith(rest, <<"/">>)
            THEN IF scheme # <<>> THEN [base EXCEPT !.opaque = rest]
                 ELSE IF \E i \in 1..Len(rest) :
                            rest[i] = ":" /\ \A j \in 1..(i - 1) : rest[j] # "/"
                      THEN NoURL
                      ELSE [base EXCEPT !.path = rest]
            ELSE IF StartsWith(rest, <<"/", "/">>)
                    /\ (scheme # <<>> \/ ~StartsWith(rest, <<"/", "/", "/">>))
            THEN LET after == SubSeq(rest, 3, Len(rest))
                     slash == IndexOf(after, "/")
                     authority == IF slash = 0 THEN after
                                  ELSE SubSeq(after, 1, slash - 1)
                     path == IF slash = 0 THEN <<>>
                             ELSE SubSeq(after, slash, Len(after))
                 IN  IF ValidHost(authority)
                     THEN [base EXCEPT !.host = authority, !.path = path]
                     ELSE NoURL
            ELSE [base EXCEPT !.path = rest, !.omitHost = (scheme # <<>>)]

\* (*URL).String
String(u) ==
    LET sch == IF u.scheme # <<>> THEN u.scheme \o <<":">> ELSE <<>>
        auth == IF u.scheme # <<>> \/ u.host # <<>>
                THEN IF u.omitHost /\ u.host = <<>> THEN <<>>
                     ELSE (IF u.host # <<>> \/ u.path # <<>>
                           THEN <<"/", "/">> ELSE <<>>) \o u.host
                ELSE <<>>
        sep == IF u.path # <<>> /\ u.path[1] # "/" /\ u.host # <<>>
               THEN <<"/">> ELSE <<>>
        dot == IF sch \o auth \o sep = <<>>
                  /\ \E i \in 1..Len(u.path) :
                        u.path[i] = ":" /\ \A j \in 1..(i - 1) : u.path[j] # "/"
               THEN <<".", "/">> ELSE <<>>
    IN  IF u.opaque # <<>> THEN sch \o u.opaque
        ELSE sch \o auth \o sep \o dot \o u.path

\* getEndpoint losing the port when it rewrites the host
getEndpointDropsPort(endpoint) ==
    LET u == Parse(endpoint)
    IN  IF ~u.err /\ Hostname(u) = <<"127.0.0.1">>
        THEN String([u EXCEPT !.host = <<"localhost">>])
        ELSE endpoint

(***************************************************************************)
(* getEndpoint (lines 195-211).                                            *)
(***************************************************************************)
getEndpoint(endpoint) ==
    LET u == Parse(endpoint)
    IN  IF ~u.err /\ Hostname(u) = <<"127.0.0.1">>
        THEN LET port == Port(u)
                 host == <<"localhost">>
                         \o (IF port # <<>> THEN <<":">> \o port ELSE <<>>)
             IN  String([u EXCEPT !.host = host])
        ELSE endpoint

(***************************************************************************)
(* Input domains.                                                          *)
(***************************************************************************)
\* url.Host of the location: no bucket, or the bucket "bkt"
Hosts == {<<>>, <<"bkt">>}

\* url.Path of the location: s3://bkt and s3://bkt/p
LocPaths == {<<>>, <<"/", "p">>}

\* keys handed to Pull and Push: "a/b" and "../a"
RelKeys == {<<"a", "/", "b">>, <<".", ".", "/", "a">>}

\* keys handed to Remove: the relative keys and the keys they are stored under
RemoveKeys == RelKeys \cup {<<"/", "p", "/", "a", "/", "b">>, <<"/", "a">>}

\* the key of the object a bucket may hold before the client's first call
SeedKeys == {<<"a", "/", "b">>}

\* prefixes handed to ReadDir: everything, "/", and one matching nothing
Prefixes == {<<>>, <<"/">>, <<"z">>}

\* the backend's clock readings
Times == {7}

LocalPaths == {"in", "out", "nodir/out"}

\* local files handed to Pull as target: "nodir" does not exist
PullTargets == {"out", "nodir/out"}

\* local files handed to Push as source: "nodir/out" does not exist
PushSources == {"in", "nodir/out"}

\* the directory "nodir" does not exist
ParentExists(p) == p # "nodir/out"

NoFile == [exists |-> FALSE, data |-> <<>>]

Endpoints == {<<"http", ":", "/", "/", "127.0.0.1", ":", "9000">>}

(***************************************************************************)
(* Options and New (lines 30-64).                                          *)
(***************************************************************************)
WithPathStyle == [opt |-> "WithPathStyle", val |-> <<>>]

WithRegion(region) == [opt |-> "WithRegion", val |-> region]

WithEndpoint(endpoint) == [opt |-> "WithEndpoint", val |-> endpoint]

WithAccessKeyId(accessKeyId) == [opt |-> "WithAccessKeyId", val |-> accessKeyId]

WithSecretAccessKey(secretAccessKey) ==
    [opt |-> "WithSecretAccessKey", val |-> secretAccessKey]

Options ==
    {WithPathStyle, WithRegion(<<"eu">>), WithAccessKeyId(<<"AK">>),
     WithSecretAccessKey(<<"SK">>)}
    \cup {WithEndpoint(e) : e \in Endpoints}

\* opt(s)
ApplyOption(s, o) ==
    CASE o.opt = "WithPathStyle" -> [s EXCEPT !.pathStyle = TRUE]
      [] o.opt = "WithRegion" -> [s EXCEPT !.region = o.val]
      [] o.opt = "WithEndpoint" -> [s EXCEPT !.endpoint = o.val]
      [] o.opt = "WithAccessKeyId" -> [s EXCEPT !.accessKeyId = o.val]
      [] o.opt = "WithSecretAccessKey" -> [s EXCEPT !.secretAccessKey = o.val]

RECURSIVE ApplyOptions(_, _)
ApplyOptions(s, opts) ==
    IF opts = <<>> THEN s
    ELSE ApplyOptions(ApplyOption(s, Head(opts)), Tail(opts))

\* New performs no validation of u
New(u, opts) ==
    ApplyOptions([url |-> u, pathStyle |-> FALSE, region |-> <<>>,
                  endpoint |-> <<>>, accessKeyId |-> <<>>,
                  secretAccessKey |-> <<>>], opts)

(***************************************************************************)
(* getConfig (lines 213-229).  Credentials and region come from the SDK's  *)
(* default chain; loading can fail.                                        *)
(***************************************************************************)
getConfig(endpoint, trace) ==
    [endpoint |-> getEndpoint(endpoint),
     logMode |-> IF trace THEN "LogRequestWithBody|LogResponse" ELSE "none",
     credentials |-> <<"default chain">>]

NoCfg == [endpoint |-> <<>>, logMode |-> "unresolved", credentials |-> <<>>]

\* the configuration with the client's access key pair passed on to it
ResolveConfigWithKeys(s, trace) ==
    [getConfig(s.endpoint, trace) EXCEPT
        !.credentials = s.accessKeyId \o s.secretAccessKey]

\* cfg, err := getConfig(s.endpoint) of Pull, Push, ReadDir and Remove
ResolveConfig(s, trace) == getConfig(s.endpoint, trace)

(***************************************************************************)
(* The requests the four operations hand to the SDK.                       *)
(***************************************************************************)
NoReq == [kind |-> "none", bucket |-> <<>>, key |-> <<>>]

\* Pull sending its source as the key, without the location path
PullRequestLiteral(s, source) ==
    [kind |-> "GetObject", bucket |-> Hostname(s.url), key |-> source]

PullRequest(s, source) ==
    [kind |-> "GetObject", bucket |-> Hostname(s.url),
     key |-> PathJoin(s.url.path, source)]

PushRequest(s, target) ==
    [kind |-> "PutObject", bucket |-> Hostname(s.url),
     key |-> PathJoin(s.url.path, target)]

\* ReadDir joining its prefix with the location path, as Pull and Push do
ReadDirRequestJoined(s, dirname) ==
    [kind |-> "ListObjectsV2", bucket |-> Hostname(s.url),
     key |-> PathJoin(s.url.path, dirname)]

ReadDirRequest(s, dirname) ==
    [kind |-> "ListObjectsV2", bucket |-> Hostname(s.url), key |-> dirname]

RemoveRequest(s, target) ==
    [kind |-> "DeleteObject", bucket |-> Hostname(s.url), key |-> target]

(***************************************************************************)
(* The object-store backend behind the SDK calls.  store maps the keys of  *)
(* the objects in the bucket to [body, lastModified].  up says whether the *)
(* backend is reachable and authorises the call; a request naming no       *)
(* bucket is always refused.                                               *)
(***************************************************************************)
Accepts(req, up) == up /\ req.bucket # <<>>

\* downloader.Download: the whole body on success; on failure the first
\* `partial` bytes may already have been written
BackendGet(st, req, up, partial) ==
    IF Accepts(req, up) /\ req.key \in DOMAIN st
    THEN [ok |-> TRUE, written |-> st[req.key].body]
    ELSE [ok |-> FALSE,
          written |-> IF req.bucket # <<>> /\ req.key \in DOMAIN st
                         /\ partial <= Len(st[req.key].body)
                      THEN SubSeq(st[req.key].body, 1, partial)
                      ELSE <<>>]

\* uploader.Upload: replaces the object at the key; the empty key is refused
BackendPut(st, req, up, body, now) ==
    IF Accepts(req, up) /\ req.key # <<>>
    THEN [ok |-> TRUE,
          store |-> [k \in DOMAIN st \cup {req.key} |->
                        IF k = req.key
                        THEN [body |-> body, lastModified |-> now]
                        ELSE st[k]]]
    ELSE [ok |-> FALSE, store |-> st]

Ord(c) ==
    CASE c = "." -> 46 [] c = "/" -> 47 [] c = "a" -> 97 [] c = "b" -> 98
      [] c = "p" -> 112 [] c = "z" -> 122

RECURSIVE KeyLess(_, _)
\* byte-wise lexicographic order of keys
KeyLess(a, b) ==
    IF b = <<>> THEN FALSE
    ELSE IF a = <<>> THEN TRUE
    ELSE IF Ord(Head(a)) # Ord(Head(b)) THEN Ord(Head(a)) < Ord(Head(b))
    ELSE KeyLess(Tail(a), Tail(b))

RECURSIVE SortKeys(_)
SortKeys(ks) ==
    IF ks = {} THEN <<>>
    ELSE LET m == CHOOSE k \in ks : \A o \in ks \ {k} : KeyLess(k, o)
         IN  <<m>> \o SortKeys(ks \ {m})

\* svc.ListObjectsV2: one page of the objects under the prefix, in key order
BackendList(st, req, up) ==
    IF Accepts(req, up)
    THEN LET keys == SortKeys({k \in DOMAIN st : IsPrefix(req.key, k)})
             page == SubSeq(keys, 1, IF Len(keys) < PageSize THEN Len(keys)
                                     ELSE PageSize)
         IN  [ok |-> TRUE,
              contents |-> [i \in 1..Len(page) |->
                               [Key |-> page[i],
                                LastModified |-> st[page[i]].lastModified,
                                Size |-> Len(st[page[i]].body)]]]
    ELSE [ok |-> FALSE, contents |-> <<>>]

\* svc.DeleteObject: deleting a key that holds no object succeeds
BackendDelete(st, req, up) ==
    IF Accepts(req, up)
    THEN [ok |-> TRUE, store |-> [k \in DOMAIN st \ {req.key} |-> st[k]]]
    ELSE [ok |-> FALSE, store |-> st]

(***************************************************************************)
(* The local filesystem: os.Create (line 84) and os.Open (line 118).       *)
(***************************************************************************)
\* os.Create fails when the parent directory is missing
CanCreate(target) == ParentExists(target)

\* os.Open fails when the file is missing
CanOpen(fs, source) == fs[source].exists

\* the file closed on the successful return only
CloseOnSuccessOnly(opened, err) == opened /\ err = "nil"

\* `defer f.Close()` (lines 88 and 122): once the file is open, it is closed
\* on every return that follows, whatever the error
DeferredClose(opened, err) == opened

(***************************************************************************)
(* What the environment does during a call: cfgOK (LoadDefaultConfig       *)
(* succeeds), up (the backend is reachable and authorises the call), trace *)
(* (the ambient log level is trace).  up and trace are only read once the  *)
(* configuration has loaded.                                               *)
(***************************************************************************)
Envs ==
    {[cfgOK |-> FALSE, up |-> FALSE, trace |-> FALSE]}
    \cup {[cfgOK |-> TRUE, up |-> u, trace |-> t] : u \in BOOLEAN, t \in BOOLEAN}

NoPrev == [op |-> "none", local |-> ""]

\* the call before this one, when it was a Push or a Remove with the same key
\* argument that returned no error
Preceding(last, arg) ==
    IF last.op \in {"Push", "Remove"} /\ last.err = "nil" /\ last.arg = arg
    THEN [op |-> last.op, local |-> last.local]
    ELSE NoPrev

NoCall ==
    [op |-> "none", arg |-> <<>>, local |-> "", cfgOK |-> FALSE, up |-> FALSE,
     err |-> "nil", n |-> 0, req |-> NoReq, cfg |-> NoCfg, listing |-> <<>>,
     opened |-> FALSE, closed |-> FALSE, prev |-> NoPrev]

\* the record of a call that has not got past its first line
Begin(op, arg, local, env) ==
    [NoCall EXCEPT !.op = op, !.arg = arg, !.local = local,
                   !.cfgOK = env.cfgOK, !.up = env.up]

ErrConfig == "failed to load AWS config"

(***************************************************************************)
(* The four operations, as functions of the client s, the bucket st, the   *)
(* local files fs, the arguments and the environment.                      *)
(***************************************************************************)
\* Pull returning the downloader's count and dropping its error
PullReturnIgnoresError(resp) == [n |-> Len(resp.written), err |-> "nil"]

\* the return of Pull after the download (lines 95-98)
PullReturn(resp) ==
    IF ~resp.ok THEN [n |-> 0, err |-> "failed to download file"]
    ELSE [n |-> Len(resp.written), err |-> "nil"]

\* Pull (lines 66-99)
PullOutcome(s, st, fs, source, target, env, partial) ==
    LET req == PullRequest(s, source)
        base == Begin("Pull", source, target, env)
    IN  IF ~env.cfgOK
        THEN [call |-> [base EXCEPT !.err = ErrConfig], files |-> fs]
        ELSE IF ~CanCreate(target)
        THEN [call |-> [base EXCEPT
                          !.err = "failed to create target restore file",
                          !.cfg = ResolveConfig(s, env.trace)],
              files |-> fs]
        ELSE LET resp == BackendGet(st, req, env.up, partial)
                 ret == PullReturn(resp)
             IN  [call |-> [base EXCEPT !.err = ret.err, !.n = ret.n,
                                        !.req = req,
                                        !.cfg = ResolveConfig(s, env.trace),
                                        !.opened = TRUE,
                                        !.closed = DeferredClose(TRUE, ret.err)],
                  files |-> [fs EXCEPT ![target] =
                                [exists |-> TRUE, data |-> resp.written]]]

\* the return of Push after the upload (lines 130-133)
PushReturn(resp) ==
    IF ~resp.ok THEN [n |-> 0, err |-> "failed to upload file"]
    ELSE [n |-> 0, err |-> "nil"]

\* Push (lines 101-134)
PushOutcome(s, st, fs, target, source, env, now) ==
    LET req == PushRequest(s, target)
        base == Begin("Push", target, source, env)
    IN  IF ~env.cfgOK
        THEN [call |-> [base EXCEPT !.err = ErrConfig], store |-> st]
        ELSE IF ~CanOpen(fs, source)
        THEN [call |-> [base EXCEPT !.err = "failed to read input file",
                                    !.cfg = ResolveConfig(s, env.trace)],
              store |-> st]
        ELSE LET resp == BackendPut(st, req, env.up, fs[source].data, now)
                 ret == PushReturn(resp)
             IN  [call |-> [base EXCEPT !.err = ret.err, !.n = ret.n,
                                        !.req = req,
                                        !.cfg = ResolveConfig(s, env.trace),
                                        !.opened = TRUE,
                                        !.closed = DeferredClose(TRUE, ret.err)],
                  store |-> resp.store]

\* the conversion of the listed objects to fs.FileInfo (lines 161-168)
ReadDirFiles(contents) ==
    [i \in 1..Len(contents) |->
        [name |-> contents[i].Key,
         lastModified |-> contents[i].LastModified,
         size |-> contents[i].Size]]

\* ReadDir (lines 144-171)
ReadDirOutcome(s, st, dirname, env) ==
    LET req == ReadDirRequest(s, dirname)
        base == Begin("ReadDir", dirname, "", env)
    IN  IF ~env.cfgOK THEN [base EXCEPT !.err = ErrConfig]
        ELSE LET resp == BackendList(st, req, env.up)
             IN  IF ~resp.ok
                 THEN [base EXCEPT !.err = "failed to list objects",
                                   !.req = req,
                                   !.cfg = ResolveConfig(s, env.trace)]
                 ELSE [base EXCEPT !.req = req,
                                   !.cfg = ResolveConfig(s, env.trace),
                                   !.listing = ReadDirFiles(resp.contents)]

\* Remove reporting a key that held no object as an error
RemoveReturnMissingIsError(st, req, resp) ==
    IF ~resp.ok \/ req.key \notin DOMAIN st THEN "failed to delete object"
    ELSE "nil"

\* the return of Remove after the delete call (lines 188-192)
RemoveReturn(st, req, resp) ==
    IF ~resp.ok THEN "failed to delete object" ELSE "nil"

\* Remove (lines 173-193)
RemoveOutcome(s, st, target, env) ==
    LET req == RemoveRequest(s, target)
        base == Begin("Remove", target, "", env)
    IN  IF ~env.cfgOK
        THEN [call |-> [base EXCEPT !.err = ErrConfig], store |-> st]
        ELSE LET resp == BackendDelete(st, req, env.up)
             IN  [call |-> [base EXCEPT !.err = RemoveReturn(st, req, resp),
                                        !.req = req,
                                        !.cfg = ResolveConfig(s, env.trace)],
                  store |-> resp.store]

(***************************************************************************)
(* State machine: one client, built by New, and its calls one at a time.   *)
(* lastCall records the last call: its arguments, what it handed to the    *)
(* SDK and what it returned.                                               *)
(***************************************************************************)
EpUnset == [set |-> FALSE, val |-> <<>>]

Handles(call) ==
    (IF call.opened THEN 1 ELSE 0) - (IF call.closed THEN 1 ELSE 0)

\* the objects a bucket may hold before the client's first call
SeedStores ==
    {<<>>} \cup
    {[k \in {key} |-> [body |-> <<2>>, lastModified |-> 6]] : key \in SeedKeys}

Init ==
    /\ \E host \in Hosts, path \in LocPaths,
          opts \in SeqsUpTo(Options, MaxOpts) :
          client = New([scheme |-> "s3", host |-> host, path |-> path], opts)
    /\ store \in SeedStores
    /\ files = [p \in LocalPaths |->
                   IF p = "in" THEN [exists |-> TRUE, data |-> <<1, 2>>]
                   ELSE NoFile]
    /\ lastCall = NoCall
    /\ openHandles = 0
    /\ epIn = <<>>
    /\ epOut = EpUnset

Pull(source, target) ==
    \E env \in Envs :
      LET key == PullRequest(client, source).key
          \* a download that fails may stop after any number of bytes
          size == IF env.cfgOK /\ ~env.up /\ key \in DOMAIN store
                  THEN Len(store[key].body) ELSE 0
      IN  \E partial \in 0..size :
            \E out \in {PullOutcome(client, store, files, source, target,
                                    env, partial)} :
                /\ lastCall' = [out.call EXCEPT
                                  !.prev = Preceding(lastCall, source)]
                /\ files' = out.files
                /\ openHandles' = openHandles + Handles(out.call)
                /\ UNCHANGED <<client, store, epIn, epOut>>

Push(target, source) ==
    \E env \in Envs, now \in Times :
      \E out \in {PushOutcome(client, store, files, target, source, env, now)} :
          /\ lastCall' = [out.call EXCEPT !.prev = Preceding(lastCall, target)]
          /\ store' = out.store
          /\ openHandles' = openHandles + Handles(out.call)
          /\ UNCHANGED <<client, files, epIn, epOut>>

ReadDir(dirname) ==
    \E env \in Envs :
      /\ lastCall' = [ReadDirOutcome(client, store, dirname, env) EXCEPT
                        !.prev = Preceding(lastCall, dirname)]
      /\ UNCHANGED <<client, store, files, openHandles, epIn, epOut>>

Remove(target) ==
    \E env \in Envs :
      \E out \in {RemoveOutcome(client, store, target, env)} :
          /\ lastCall' = [out.call EXCEPT !.prev = Preceding(lastCall, target)]
          /\ store' = out.store
          /\ UNCHANGED <<client, files, openHandles, epIn, epOut>>

Next ==
    \/ \E source \in RelKeys, target \in PullTargets : Pull(source, target)
    \/ \E target \in RelKeys, source \in PushSources : Push(target, source)
    \/ \E dirname \in Prefixes : ReadDir(dirname)
    \/ \E target \in RemoveKeys : Remove(target)

Spec == Init /\ [][Next]_vars

(***************************************************************************)
(* getEndpoint on its own: every endpoint string of up to MaxEndpointLen   *)
(* lexemes is normalised once.                                             *)
(***************************************************************************)
InitEndpoint ==
    /\ client = New([scheme |-> "s3", host |-> <<"bkt">>, path |-> <<>>], <<>>)
    /\ store = <<>>
    /\ files = [p \in LocalPaths |-> NoFile]
    /\ lastCall = NoCall
    /\ openHandles = 0
    /\ epIn \in {Lexemes(t) : t \in SeqsUpTo(EndpointTokens, MaxEndpointLen)}
    /\ epOut = EpUnset

Normalize ==
    /\ ~epOut.set
    /\ epOut' = [set |-> TRUE, val |-> getEndpoint(epIn)]
    /\ UNCHANGED <<client, store, files, lastCall, openHandles, epIn>>

NextEndpoint == Normalize

SpecEndpoint == InitEndpoint /\ [][NextEndpoint]_vars

(***************************************************************************)
(* Properties.                                                             *)
(***************************************************************************)
Issued == lastCall.req.kind # "none"

Succeeded == lastCall.err = "nil"

\* the call was served: the configuration loaded, the backend was up and the
\* client names a bucket
Served == lastCall.cfgOK /\ lastCall.up /\ Hostname(client.url) # <<>>

\* C1: a Pull that succeeds right after a successful Push of the same key
\* leaves the target file with the bytes of the file that was pushed.
RoundTrip ==
    (lastCall.op = "Pull" /\ Succeeded /\ lastCall.prev.op = "Push")
    => /\ files[lastCall.local].exists
       /\ files[lastCall.local].data = files[lastCall.prev.local].data

RoundTripWitness ==
    /\ lastCall.op = "Pull" /\ Succeeded /\ lastCall.prev.op = "Push"
    /\ client.url.path # <<>>
    /\ files[lastCall.local].data = <<1, 2>>

\* C2: no request is handed to the backend with an empty bucket name.
NoEmptyBucketRequest == Issued => lastCall.req.bucket # <<>>

HasDoubleSlash(key) ==
    \E i \in 1..(Len(key) - 1) : key[i] = "/" /\ key[i + 1] = "/"

\* C3: the key Pull sends has no leading slash and no double slash, and for
\* location path "/p" and source "a/b" it is "p/a/b".
PullKeyRelative ==
    (lastCall.op = "Pull" /\ Issued)
    => /\ lastCall.req.key # <<>> => lastCall.req.key[1] # "/"
       /\ ~HasDoubleSlash(lastCall.req.key)
       /\ (client.url.path = <<"/", "p">> /\ lastCall.arg = <<"a", "/", "b">>)
          => lastCall.req.key = <<"p", "/", "a", "/", "b">>

\* the key lies under the location path (with or without its leading slash);
\* under the empty location path, it does not climb out with ".."
UnderPrefix(prefix, key) ==
    IF prefix = <<>>
    THEN ~IsPrefix(<<".", ".">>, key) /\ ~IsPrefix(<<"/">>, key)
    ELSE \/ key = prefix
         \/ IsPrefix(prefix \o <<"/">>, key)
         \/ key = Tail(prefix)
         \/ IsPrefix(Tail(prefix) \o <<"/">>, key)

\* C4: the key Pull and Push send stays under the location path.
KeyStaysUnderPrefix ==
    (lastCall.op \in {"Pull", "Push"} /\ Issued)
    => UnderPrefix(client.url.path, lastCall.req.key)

Loopback9000 == <<"http", ":", "/", "/", "127.0.0.1", ":", "9000">>

\* C5: an endpoint that parses with hostname 127.0.0.1 comes back as the same
\* URL with host localhost and the port kept exactly when there was one; any
\* other endpoint, and any string that does not parse, comes back unchanged.
EndpointNormalized ==
    epOut.set =>
      LET u == Parse(epIn)
          r == Parse(epOut.val)
      IN  IF ~u.err /\ Hostname(u) = <<"127.0.0.1">>
          THEN /\ ~r.err
               /\ r.scheme = u.scheme /\ r.path = u.path /\ r.opaque = u.opaque
               /\ r.host = IF Port(u) = <<>> THEN <<"localhost">>
                           ELSE <<"localhost", ":">> \o Port(u)
               /\ epIn = Loopback9000
                  => epOut.val = <<"http", ":", "/", "/", "localhost", ":", "9000">>
               /\ epIn = <<"http", ":", "/", "/", "127.0.0.1">>
                  => epOut.val = <<"http", ":", "/", "/", "localhost">>
          ELSE epOut.val = epIn

EndpointNormalizedWitness ==
    /\ epOut.set
    /\ epIn = Loopback9000
    /\ epOut.val = <<"http", ":", "/", "/", "localhost", ":", "9000">>

\* C6: a Remove that is served returns no error whether or not the key holds
\* an object (so also right after a Remove of the same key), the key holds no
\* object afterwards, and no other object of the bucket changes.
RemoveIdempotent ==
    /\ [](lastCall.op = "Remove" /\ Served
          => Succeeded /\ lastCall.arg \notin DOMAIN store)
    /\ [][lastCall'.op = "Remove"
          => \A k \in DOMAIN store \ {lastCall'.arg} :
                k \in DOMAIN store' /\ store'[k] = store[k]]_vars

RemoveIdempotentWitness ==
    /\ lastCall.op = "Remove" /\ Succeeded
    /\ lastCall.prev.op = "Remove"
    /\ DOMAIN store # {}

\* C7: Pull returns an error with count 0 whenever loading the configuration,
\* creating the target or the download fails; it returns no error only when
\* the whole object is in the target, and then the count is its length.
PullNeverReportsPartial ==
    lastCall.op = "Pull"
    => /\ ~Succeeded => lastCall.n = 0
       /\ (~lastCall.cfgOK \/ ~ParentExists(lastCall.local) \/ ~lastCall.up)
          => ~Succeeded
       /\ Succeeded
          => /\ lastCall.req.key \in DOMAIN store
             /\ files[lastCall.local].exists
             /\ files[lastCall.local].data = store[lastCall.req.key].body
             /\ lastCall.n = Len(store[lastCall.req.key].body)

PullNeverReportsPartialWitness ==
    /\ lastCall.op = "Pull"
    /\ lastCall.err = "failed to download file"
    /\ files[lastCall.local].data = <<1>>
    /\ lastCall.n = 0

\* C8: every file Pull or Push opens is closed when the call returns, a call
\* that opens none closes none, and no handle stays open between calls.
NoHandleLeak ==
    /\ openHandles = 0
    /\ lastCall.opened <=> lastCall.closed
    /\ lastCall.opened <=> (lastCall.op \in {"Pull", "Push"} /\ Issued)

NoHandleLeakWitness ==
    /\ lastCall.op = "Push"
    /\ lastCall.err = "failed to upload file"
    /\ lastCall.opened /\ lastCall.closed
    /\ openHandles = 0

Sorted(listing) ==
    \A i \in 1..(Len(listing) - 1) : KeyLess(listing[i].name, listing[i + 1].name)

Matching(prefix) == {k \in DOMAIN store : IsPrefix(prefix, k)}

\* C9: ReadDir and Remove hand their argument to the backend as it is, with
\* the location host as bucket and without the location path; a ReadDir that
\* is served returns one page of the objects under the prefix in key order,
\* which is empty, with no error, when nothing matches.
LiteralArguments ==
    /\ (lastCall.op = "ReadDir" /\ lastCall.cfgOK)
       => lastCall.req = [kind |-> "ListObjectsV2",
                          bucket |-> Hostname(client.url),
                          key |-> lastCall.arg]
    /\ (lastCall.op = "Remove" /\ lastCall.cfgOK)
       => lastCall.req = [kind |-> "DeleteObject",
                          bucket |-> Hostname(client.url),
                          key |-> lastCall.arg]
    /\ (lastCall.op = "ReadDir" /\ Served)
       => /\ Succeeded
          /\ Sorted(lastCall.listing)
          /\ \A i \in 1..Len(lastCall.listing) :
                LET f == lastCall.listing[i]
                IN  /\ f.name \in Matching(lastCall.arg)
                    /\ f.size = Len(store[f.name].body)
                    /\ f.lastModified = store[f.name].lastModified
                    /\ \A k \in Matching(lastCall.arg) :
                          KeyLess(k, f.name)
                          => \E j \in 1..(i - 1) : lastCall.listing[j].name = k
          /\ Len(lastCall.listing) =
                IF Cardinality(Matching(lastCall.arg)) < PageSize
                THEN Cardinality(Matching(lastCall.arg)) ELSE PageSize

LiteralArgumentsWitness ==
    /\ lastCall.op = "ReadDir" /\ Served
    /\ client.url.path # <<>>
    /\ lastCall.arg = <<"/">>
    /\ Len(lastCall.listing) = 2

\* the request a call hands to the SDK, as a function of the client
RequestOf(s, op, arg) ==
    CASE op = "Pull" -> PullRequest(s, arg)
      [] op = "Push" -> PushRequest(s, arg)
      [] op = "ReadDir" -> ReadDirRequest(s, arg)
      [] op = "Remove" -> RemoveRequest(s, arg)

CredentialValues == {<<>>, <<"AK">>, <<"SK">>}

\* C10: a client that differs only in its access key id and secret access key
\* resolves the same configuration and issues the same request; the
\* configuration is that of the endpoint and the log level alone.
CredentialsNotWired ==
    \A ak \in CredentialValues, sk \in CredentialValues :
      LET twin == [client EXCEPT !.accessKeyId = ak, !.secretAccessKey = sk]
          trace == lastCall.cfg.logMode # "none"
      IN  /\ lastCall.cfg # NoCfg
             => /\ lastCall.cfg = ResolveConfig(twin, trace)
                /\ lastCall.cfg = getConfig(client.endpoint, trace)
          /\ Issued => lastCall.req = RequestOf(twin, lastCall.op, lastCall.arg)

CredentialsNotWiredWitness ==
    /\ client.accessKeyId = <<"AK">>
    /\ Issued /\ Succeeded
    /\ lastCall.cfg.credentials = <<"default chain">>

====
